---- MODULE Spec2Model ----
(***************************************************************************)
(* greins: GreinsApplication.load() and FileLoader.run() of                *)
(* src/greins/app.py.                                                      *)
(*                                                                         *)
(* One coordinator (the thread that calls load()) starts one FileLoader    *)
(* thread per configuration file, polls until they are dead or the wait    *)
(* ceiling is reached, and merges what the dead threads left behind into   *)
(* the application's _mounts and _hooks.  The loaders run concurrently     *)
(* with the coordinator and with each other.  After load() has returned,   *)
(* the serving layer calls the hook proxies made by init().  The Router    *)
(* that load() builds is in greins/router.py and is described here from    *)
(* the specification's section 4.4.                                        *)
(***************************************************************************)
EXTENDS Integers, Sequences, FiniteSets, TLC

VARIABLES
    use_reloader,           \* GreinsApplication._use_reloader
    progs,                  \* the code each configuration file holds
    gen,                    \* how many times load() has been entered
    pc,                     \* the coordinator's position in load()
    threads,                \* load(): the glob result, one FileLoader each
    idx,                    \* load(): position of the for loops over threads
    elapsed,                \* load(): time.time() - start_time, in polls
    pos,                    \* FileLoader: position of each thread
    cfg,                    \* FileLoader.cfg: the unit's namespace
    mounts,                 \* FileLoader.mounts
    reloader_extra_files,   \* FileLoader.reloader_extra_files
    _mounts,                \* GreinsApplication._mounts
    _hooks,                 \* GreinsApplication._hooks[name]['handlers']
    extra_files,            \* load(): reloader.extra_files
    log,                    \* what load() and its loaders handed to self.logger
    finished,               \* the units in the order their threads ended
    timedOut,               \* the units alive when the wait ended
    prev,                   \* what the last load() that returned left behind
    proxy_call,             \* the last call of a hook's proxy since load()
    dispatched              \* the last request the Router resolved

vars == <<use_reloader, progs, gen, pc, threads, idx, elapsed, pos, cfg,
          mounts, reloader_extra_files, _mounts, _hooks, extra_files,
          log, finished, timedOut, prev, proxy_call, dispatched>>

----------------------------------------------------------------------------
(* Bounds of the model *)

\* load() is entered at most this many times on one application
MaxLoads == 2

\* the wait ceiling, counted in polls of the waiting loop (max_wait = 5 s at
\* 0.01 s per poll in the source)
MaxPolls == 2

----------------------------------------------------------------------------
(* The inputs: configuration files and what their code does *)

\* the *.py files that can be in app_dir
Units == {"a.py", "b.py"}

\* the settings of the "Server Hooks" section (two of them)
Hooks == {"on_starting", "when_ready"}

\* the file of FileLoader.run, the first frame of every traceback
GreinsFile == "greins/app.py"

\* a key of cfg['mounts'] that is not a string (it has no startswith)
NonStr == <<"#int">>

\* mount prefixes are strings: sequences of characters
Bare_x == <<"x">>
Slash_x == <<"/", "x">>
Slash_y == <<"/", "y">>

NoBinds == [h \in {} |-> TRUE]

\* What the code of a configuration file does when executed:
\*   binds : the hook names it binds, and whether the bound object passes
\*           the hook's validator
\*   decl  : the keys it puts in `mounts`, in the order it declares them
\*   fate  : "ok" it runs to its end; "raise_early" it raises before binding
\*           anything; "raise_late" it raises after its last binding;
\*           "hang" it never returns after its last binding; "exit" it raises
\*           an exception that is not an Exception (sys.exit(): SystemExit)
\*           after its last binding
Programs ==
    { [binds |-> ("on_starting" :> TRUE) @@ ("when_ready" :> FALSE),
       decl  |-> <<Bare_x, Slash_x>>,      fate |-> "ok"],
      [binds |-> ("when_ready" :> TRUE),
       decl  |-> <<Slash_y>>,              fate |-> "ok"],
      [binds |-> ("on_starting" :> TRUE),
       decl  |-> <<Slash_x>>,              fate |-> "raise_late"],
      [binds |-> ("on_starting" :> TRUE),
       decl  |-> <<Slash_y>>,              fate |-> "raise_early"],
      [binds |-> NoBinds,
       decl  |-> <<Slash_x, NonStr>>,      fate |-> "ok"],
      [binds |-> ("on_starting" :> TRUE),
       decl  |-> <<Slash_y>>,              fate |-> "hang"],
      [binds |-> NoBinds,
       decl  |-> <<Slash_y>>,              fate |-> "exit"] }

----------------------------------------------------------------------------
(* Values *)

EmptyMap == [p \in {} |-> TRUE]

\* no proxy has been called since load() was entered
NoCall == [name |-> "", args |-> <<>>, calls |-> <<>>, escaped |-> FALSE]

\* an object a unit binds to a hook name while load number g runs
HookHandler(u, g, h) ==
    [unit |-> u, gen |-> g, hook |-> h, valid |-> progs[u].binds[h]]

\* the handler a unit puts under key r of `mounts` while load number g runs
App(u, g, r) == [unit |-> u, gen |-> g, raw |-> r, wrapped |-> FALSE]

\* wrap that hands back the unit's own function
wrap_returns_app(app) == app

\* wrap(app): a new function object app_with_env around app
wrap(app) == [app EXCEPT !.wrapped = TRUE]

\* r.startswith('/')
startswith_slash(r) == Len(r) > 0 /\ r[1] = "/"

\* the key left as the unit wrote it
with_leading_slash_never(r) == r

\* if not r.startswith('/'): r = '/' + r
with_leading_slash(r) == IF startswith_slash(r) THEN r ELSE <<"/">> \o r

\* d.setdefault(k, v) on a dict d: the dict afterwards
setdefault(d, k, v) ==
    IF k \in DOMAIN d THEN d
    ELSE [x \in DOMAIN d \cup {k} |-> IF x = k THEN v ELSE d[x]]

LogEntry(kind, g, u, p) == [kind |-> kind, gen |-> g, unit |-> u, prefix |-> p]

\* every order in which a dict with these keys can be iterated
Orders(s) ==
    { o \in [1..Len(s) -> 1..Len(s)] : \A i, j \in 1..Len(s) : i # j => o[i] # o[j] }

----------------------------------------------------------------------------
(* FileLoader *)

\* a thread counted as ended once execfile has returned
isAlive_until_execfile_returns(u) == pos[u] = "exec"

\* threading.Thread.isAlive(): started and run() has not returned
isAlive(u) == pos[u] \in {"exec", "norm", "hung"}

\* FileLoader.__init__: the fields of a new loader
NewCfg == [hooks |-> NoBinds, mounts |-> <<>>]

\* the namespace after the unit's code has made all of its bindings
BoundCfg(u) ==
    [hooks  |-> [h \in DOMAIN progs[u].binds |-> HookHandler(u, gen, h)],
     mounts |-> progs[u].decl]

\* the except clause of run(): the files of the traceback's frames, when the
\* reloader is in use.  inUnit: the exception was raised by the unit's code
\* (a frame of the unit's file is in the traceback)
ExceptFiles(u, inUnit) ==
    IF use_reloader
    THEN {GreinsFile} \cup (IF inUnit THEN {u} ELSE {})
    ELSE {}

\* The loop of run() over cfg['mounts'].iteritems(), from item i of the
\* iteration order `order` on; acc is [mounts, log, raised].
RECURSIVE LoadMounts(_, _, _, _, _)
LoadMounts(u, items, order, i, acc) ==
    IF i > Len(items) THEN acc
    ELSE
      LET r       == items[order[i]]
          wrapped == wrap(App(u, gen, r))
      IN  IF r = NonStr
          THEN [acc EXCEPT !.raised = TRUE]     \* r.startswith: AttributeError
          ELSE
            LET key  == with_leading_slash(r)
                lead == IF startswith_slash(r) THEN {}
                        ELSE {LogEntry("leading_slash", gen, u, r)}
                m2   == setdefault(acc.mounts, key, wrapped)
                dup  == IF m2[key] # wrapped
                        THEN {LogEntry("duplicate_route", gen, u, key)}
                        ELSE {}
            IN  LoadMounts(u, items, order, i + 1,
                           [mounts |-> m2,
                            log    |-> acc.log \cup lead \cup dup,
                            raised |-> FALSE])

\* run(), first part: execfile(self.cf, self.cfg, self.cfg), and the except
\* clause when the unit's code raises
Exec(u) ==
    /\ pos[u] = "exec"
    /\ LET fate == progs[u].fate IN
       /\ cfg' = [cfg EXCEPT ![u] = IF fate = "raise_early" THEN @ ELSE BoundCfg(u)]
       /\ pos' = [pos EXCEPT ![u] = CASE fate = "ok"   -> "norm"
                                      [] fate = "hang" -> "hung"
                                      [] OTHER         -> "dead"]
       /\ IF fate \in {"raise_early", "raise_late"}
          THEN /\ reloader_extra_files' =
                      [reloader_extra_files EXCEPT ![u] = @ \cup ExceptFiles(u, TRUE)]
               /\ log' = log \cup {LogEntry("exception", gen, u, <<>>)}
               /\ finished' = Append(finished, u)
          ELSE /\ UNCHANGED <<reloader_extra_files, log>>
               \* "exit": `except Exception` does not match, the exception
               \* leaves run() and the thread ends
               /\ finished' = IF fate = "exit" THEN Append(finished, u) ELSE finished
    /\ UNCHANGED <<use_reloader, progs, gen, pc, threads, idx, elapsed, mounts,
                   _mounts, _hooks, extra_files, timedOut>>
    /\ UNCHANGED <<prev, proxy_call, dispatched>>

\* run(), second part: the loop over cfg['mounts'], in the dict's iteration
\* order, and the except clause when it raises; then the thread ends
Normalize(u) ==
    /\ pos[u] = "norm"
    /\ \E order \in Orders(cfg[u].mounts) :
         LET res == LoadMounts(u, cfg[u].mounts, order, 1,
                               [mounts |-> mounts[u], log |-> {}, raised |-> FALSE])
         IN  /\ mounts' = [mounts EXCEPT ![u] = res.mounts]
             /\ IF res.raised
                THEN /\ reloader_extra_files' =
                            [reloader_extra_files EXCEPT ![u] = @ \cup ExceptFiles(u, FALSE)]
                     /\ log' = log \cup res.log \cup {LogEntry("exception", gen, u, <<>>)}
                ELSE /\ log' = log \cup res.log
                     /\ UNCHANGED reloader_extra_files
    /\ pos' = [pos EXCEPT ![u] = "dead"]
    /\ finished' = Append(finished, u)
    /\ UNCHANGED <<use_reloader, progs, gen, pc, threads, idx, elapsed, cfg,
                   _mounts, _hooks, extra_files, timedOut>>
    /\ UNCHANGED <<prev, proxy_call, dispatched>>

----------------------------------------------------------------------------
(* GreinsApplication.load *)

NoLoaders ==
    /\ pos' = [u \in Units |-> "new"]
    /\ cfg' = [u \in Units |-> NewCfg]
    /\ mounts' = [u \in Units |-> EmptyMap]
    /\ reloader_extra_files' = [u \in Units |-> {}]
    /\ finished' = <<>>

\* every list glob.glob can return for a directory holding the files S
Listings(S) ==
    { l \in [1..Cardinality(S) -> S] : \A i, j \in 1..Cardinality(S) : i # j => l[i] # l[j] }

\* load() is entered: reloader = Reloader(); threads = []; glob.glob.  The
\* log is kept per call of load().
BeginLoad ==
    /\ pc \in {"init", "returned", "raised"}
    /\ gen < MaxLoads
    /\ gen' = gen + 1
    /\ \E S \in SUBSET Units : \E l \in Listings(S) : threads' = l
    /\ pc' = "start"
    /\ idx' = 1
    /\ elapsed' = 0
    /\ extra_files' = {}
    /\ timedOut' = {}
    /\ log' = {}
    /\ NoLoaders
    /\ UNCHANGED <<use_reloader, progs, _mounts, _hooks>>
    /\ UNCHANGED <<prev, dispatched>>
    /\ proxy_call' = NoCall

\* one round of the first for loop: t = FileLoader(...); t.start()
StartThread ==
    /\ pc = "start"
    /\ idx <= Len(threads)
    /\ pos' = [pos EXCEPT ![threads[idx]] = "exec"]
    /\ idx' = idx + 1
    /\ UNCHANGED <<use_reloader, progs, gen, pc, threads, elapsed, cfg, mounts,
                   reloader_extra_files, _mounts, _hooks, extra_files, log,
                   finished, timedOut>>
    /\ UNCHANGED <<prev, proxy_call, dispatched>>

\* max_wait = 5; start_time = time.time()
StartTimer ==
    /\ pc = "start"
    /\ idx > Len(threads)
    /\ pc' = "wait"
    /\ elapsed' = 0
    /\ UNCHANGED <<use_reloader, progs, gen, threads, idx, pos, cfg, mounts,
                   reloader_extra_files, _mounts, _hooks, extra_files, log,
                   finished, timedOut>>
    /\ UNCHANGED <<prev, proxy_call, dispatched>>

AliveThreads == { u \in Units : isAlive(u) }

\* the while loop without the test of the elapsed time
Poll_without_ceiling ==
    /\ pc = "wait"
    /\ IF AliveThreads # {}
       THEN /\ elapsed' = IF elapsed < MaxPolls THEN elapsed + 1 ELSE elapsed
            /\ UNCHANGED <<pc, idx, timedOut>>
       ELSE /\ pc' = "merge"
            /\ idx' = 1
            /\ timedOut' = AliveThreads
            /\ UNCHANGED elapsed
    /\ UNCHANGED <<use_reloader, progs, gen, threads, pos, cfg, mounts,
                   reloader_extra_files, _mounts, _hooks, extra_files, log,
                   finished>>
    /\ UNCHANGED <<prev, proxy_call, dispatched>>

\* one test of the while loop: sleep when a thread is alive and the ceiling
\* is not reached, leave the loop otherwise
Poll ==
    /\ pc = "wait"
    /\ IF AliveThreads # {} /\ elapsed < MaxPolls
       THEN /\ elapsed' = elapsed + 1
            /\ UNCHANGED <<pc, idx, timedOut>>
       ELSE /\ pc' = "merge"
            /\ idx' = 1
            /\ timedOut' = AliveThreads
            /\ UNCHANGED elapsed
    /\ UNCHANGED <<use_reloader, progs, gen, threads, pos, cfg, mounts,
                   reloader_extra_files, _mounts, _hooks, extra_files, log,
                   finished>>
    /\ UNCHANGED <<prev, proxy_call, dispatched>>

\* the merge with self._mounts[route] = value in place of setdefault
MergeMounts_overwrite(gm, tm) ==
    [p \in DOMAIN gm \cup DOMAIN tm |-> IF p \in DOMAIN tm THEN tm[p] ELSE gm[p]]

\* for route, value in t.mounts.iteritems(): self._mounts.setdefault(...)
MergeMounts(gm, tm) ==
    [p \in DOMAIN gm \cup DOMAIN tm |-> IF p \in DOMAIN gm THEN gm[p] ELSE tm[p]]

\* the routes for which setdefault returned another value than t's
DuplicateRoutes(gm, tm) == { p \in DOMAIN tm \cap DOMAIN gm : gm[p] # tm[p] }

\* a validator that raises for no handler
validator_accepts_all(handler) == TRUE

\* self._hooks[hook]['validator'](handler) does not raise
validator(handler) == handler.valid

\* the handlers of t.cfg that are appended to hook h's list
Accepted(u, h) ==
    IF h \in DOMAIN cfg[u].hooks /\ validator(cfg[u].hooks[h])
    THEN <<cfg[u].hooks[h]>>
    ELSE <<>>

\* the merge with the handler list assigned in place of appended to
MergeHooks_assign(hk, u) ==
    [h \in Hooks |-> IF Accepted(u, h) # <<>> THEN Accepted(u, h) ELSE hk[h]]

MergeHooks(hk, u) == [h \in Hooks |-> hk[h] \o Accepted(u, h)]

\* the hooks of t.cfg whose validator raised
RejectedHooks(u) ==
    { h \in DOMAIN cfg[u].hooks : ~validator(cfg[u].hooks[h]) }

\* reloader.extra_files.union(t.reloader_extra_files): set.union returns a
\* new set and leaves reloader.extra_files as it was
ReloaderUnion(files, more) == files

\* one round of the second for loop, on t = threads[idx]
Merge ==
    /\ pc = "merge"
    /\ idx <= Len(threads)
    /\ LET u == threads[idx] IN
       IF ~isAlive(u)
       THEN /\ _mounts' = MergeMounts(_mounts, mounts[u])
            /\ _hooks' = MergeHooks(_hooks, u)
            /\ log' = log
                 \cup { LogEntry("duplicate_route", gen, "", p) :
                          p \in DuplicateRoutes(_mounts, mounts[u]) }
                 \cup { LogEntry("hook_error", gen, u, <<>>) :
                          h \in RejectedHooks(u) }
            /\ extra_files' = IF use_reloader
                              THEN ReloaderUnion(extra_files, reloader_extra_files[u])
                              ELSE extra_files
            /\ idx' = idx + 1
            /\ UNCHANGED <<pc, threads, elapsed, pos, cfg, mounts,
                           reloader_extra_files, finished>>
       ELSE \* t.cf(): t.cf is a str, calling it raises TypeError, which
            \* leaves load() before logger.error is called
            /\ pc' = "raised"
            /\ threads' = <<>>
            /\ idx' = 1
            /\ elapsed' = 0
            /\ NoLoaders
            /\ UNCHANGED <<_mounts, _hooks, log, extra_files>>
    /\ UNCHANGED <<use_reloader, progs, gen, timedOut>>
    /\ UNCHANGED <<prev, proxy_call, dispatched>>

\* reloader.start(); router = Router(mounts=self._mounts); logger.info
BuildRouter ==
    /\ pc = "merge"
    /\ idx > Len(threads)
    /\ pc' = "built"
    /\ log' = log \cup {LogEntry("booted", gen, "", <<>>)}
    /\ UNCHANGED <<use_reloader, progs, gen, threads, idx, elapsed, pos, cfg,
                   mounts, reloader_extra_files, _mounts, _hooks, extra_files,
                   finished, timedOut>>
    /\ UNCHANGED <<prev, proxy_call, dispatched>>

\* what a load() that returns leaves behind: the files it listed, the keys of
\* each loader's mounts, and self._mounts as handed to its Router
Left ==
    [gen    |-> gen,
     listed |-> { threads[i] : i \in 1..Len(threads) },
     keys   |-> [u \in Units |-> DOMAIN mounts[u]],
     table  |-> _mounts]

\* return router: the locals of load() go out of scope
Return ==
    /\ pc = "built"
    /\ pc' = "returned"
    /\ threads' = <<>>
    /\ idx' = 1
    /\ elapsed' = 0
    /\ timedOut' = {}
    /\ NoLoaders
    /\ UNCHANGED <<use_reloader, progs, gen, _mounts, _hooks, extra_files, log>>
    /\ prev' = Left
    /\ UNCHANGED <<proxy_call, dispatched>>

----------------------------------------------------------------------------
(* The hook proxies *)

\* the argument tuples a proxy is called with
ArgTuples == {<<"server">>, <<"worker">>}

\* the loop with the newest handler called first
CallHandlers_newest_first(handlers, args, first_raise, i) ==
    [j \in 1..Len(handlers) |->
        [handler |-> handlers[Len(handlers) + 1 - j], args |-> args]]

\* for handler in greins._hooks[name]['handlers']: handler(args), from place
\* i of the list on: the calls made, in order.  first_raise is the place of
\* the first handler that raises when called (0: none does); its exception
\* leaves the loop.
RECURSIVE CallHandlers(_, _, _, _)
CallHandlers(handlers, args, first_raise, i) ==
    IF i > Len(handlers) THEN <<>>
    ELSE <<[handler |-> handlers[i], args |-> args]>>
         \o (IF i = first_raise THEN <<>>
             ELSE CallHandlers(handlers, args, first_raise, i + 1))

\* the serving layer calls the proxy of hook `name`, while load() is not
\* running
proxy(name) ==
    /\ pc \in {"init", "returned"}
    /\ \E args \in ArgTuples : \E first_raise \in 0..Len(_hooks[name]) :
         proxy_call' = [name    |-> name,
                        args    |-> args,
                        calls   |-> CallHandlers(_hooks[name], args, first_raise, 1),
                        escaped |-> first_raise # 0]
    /\ UNCHANGED <<use_reloader, progs, gen, pc, threads, idx, elapsed, pos, cfg,
                   mounts, reloader_extra_files, _mounts, _hooks, extra_files,
                   log, finished, timedOut, prev, dispatched>>

----------------------------------------------------------------------------
(* The Router (greins/router.py), handed self._mounts by load() *)

\* the prefixes a route table is drawn from
RouterPrefixes ==
    { <<"/", "a">>, <<"/", "a", "/", "b">>, <<"/", "a", "b">>, <<"/", "z", "/", "b">> }

\* the paths of the requests
RequestPaths ==
    { <<"/", "a">>, <<"/", "a", "/", "b">>, <<"/", "a", "/", "b", "/", "x">>,
      <<"/", "a", "/", "x">>, <<"/", "a", "b">>, <<"/", "a", "b", "/", "x">>,
      <<"/", "z">> }

\* the route tables load() can hand to Router(mounts=...)
RouterTables ==
    { [p \in D |-> wrap(App("a.py", 1, p))] : D \in SUBSET RouterPrefixes }

\* no request has been resolved
NoRequest == [path |-> <<>>, found |-> FALSE, prefix |-> <<>>]

\* plain string prefix: path.startswith(prefix)
startswith_prefix(path, prefix) ==
    /\ Len(prefix) <= Len(path)
    /\ SubSeq(path, 1, Len(prefix)) = prefix

\* prefix is a prefix of path that ends where a segment of path ends
matches(path, prefix) ==
    /\ Len(prefix) <= Len(path)
    /\ SubSeq(path, 1, Len(prefix)) = prefix
    /\ Len(prefix) = Len(path) \/ path[Len(prefix) + 1] = "/"

\* the outcome of resolving path against the table
Resolve(table, path) ==
    LET cands == { p \in DOMAIN table : matches(path, p) } IN
    IF cands = {}
    THEN [path |-> path, found |-> FALSE, prefix |-> <<>>]
    ELSE [path   |-> path,
          found  |-> TRUE,
          prefix |-> CHOOSE p \in cands : \A q \in cands : Len(q) <= Len(p)]

\* the Router resolves one request
Dispatch(path) ==
    /\ pc = "returned"
    /\ dispatched' = Resolve(_mounts, path)
    /\ UNCHANGED <<use_reloader, progs, gen, pc, threads, idx, elapsed, pos, cfg,
                   mounts, reloader_extra_files, _mounts, _hooks, extra_files,
                   log, finished, timedOut, prev, proxy_call>>

\* a load() has returned a Router over some route table
RouterInit ==
    /\ use_reloader \in BOOLEAN
    /\ progs \in [Units -> Programs]
    /\ gen = 1
    /\ pc = "returned"
    /\ threads = <<>>
    /\ idx = 1
    /\ elapsed = 0
    /\ pos = [u \in Units |-> "new"]
    /\ cfg = [u \in Units |-> NewCfg]
    /\ mounts = [u \in Units |-> EmptyMap]
    /\ reloader_extra_files = [u \in Units |-> {}]
    /\ _mounts \in RouterTables
    /\ _hooks = [h \in Hooks |-> <<>>]
    /\ extra_files = {}
    /\ log = {}
    /\ finished = <<>>
    /\ timedOut = {}
    /\ prev = [gen |-> 0, listed |-> {}, keys |-> [u \in Units |-> {}],
               table |-> EmptyMap]
    /\ proxy_call = NoCall
    /\ dispatched = NoRequest

RouterNext == \E path \in RequestPaths : Dispatch(path)

RouterSpec == RouterInit /\ [][RouterNext]_vars

----------------------------------------------------------------------------
(* The specification *)

\* init(): self._mounts = {}; self._hooks[name] = {"handlers": [], ...}
Init ==
    /\ use_reloader \in BOOLEAN
    /\ progs \in [Units -> Programs]
    /\ gen = 0
    /\ pc = "init"
    /\ threads = <<>>
    /\ idx = 1
    /\ elapsed = 0
    /\ pos = [u \in Units |-> "new"]
    /\ cfg = [u \in Units |-> NewCfg]
    /\ mounts = [u \in Units |-> EmptyMap]
    /\ reloader_extra_files = [u \in Units |-> {}]
    /\ _mounts = EmptyMap
    /\ _hooks = [h \in Hooks |-> <<>>]
    /\ extra_files = {}
    /\ log = {}
    /\ finished = <<>>
    /\ timedOut = {}
    /\ prev = [gen |-> 0, listed |-> {}, keys |-> [u \in Units |-> {}],
               table |-> EmptyMap]
    /\ proxy_call = NoCall
    /\ dispatched = NoRequest

Next ==
    \/ BeginLoad
    \/ StartThread
    \/ StartTimer
    \/ Poll
    \/ Merge
    \/ BuildRouter
    \/ Return
    \/ \E u \in Units : Exec(u)
    \/ \E u \in Units : Normalize(u)
    \/ \E name \in Hooks : proxy(name)

Spec == Init /\ [][Next]_vars

\* The coordinator's thread is scheduled again after each time.sleep(0.01).
FairSpec == Spec /\ WF_vars(Poll)

----------------------------------------------------------------------------
(* What the properties speak of *)

\* the units of the load in progress
Listed == { threads[i] : i \in 1..Len(threads) }

\* the place of unit u in a sequence of units that holds it
IndexIn(seq, u) == CHOOSE i \in 1..Len(seq) : seq[i] = u

\* an exception left unit u's run() during the load in progress
Escaped(u) == pos[u] = "dead" /\ progs[u].fate = "exit"

\* the code of unit u raised during the load in progress
Raised(u) == LogEntry("exception", gen, u, <<>>) \in log \/ Escaped(u)

\* the coordinator has taken unit u through its merge loop in this load
Merged(u) ==
    /\ pc \in {"merge", "built"}
    /\ \E i \in 1..Len(threads) : threads[i] = u /\ i < idx

\* the prefixes unit u declares, as the loader stores them
NormKeys(u) ==
    { with_leading_slash(progs[u].decl[i]) :
        i \in { j \in 1..Len(progs[u].decl) : progs[u].decl[j] # NonStr } }

\* the routes of the table that a handler of unit u, made in this load, holds
RoutesOf(u) ==
    { p \in DOMAIN _mounts : _mounts[p].unit = u /\ _mounts[p].gen = gen }

\* the places of hook h's list that a handler of unit u, made in this load, holds
HandlersOf(u, h) ==
    { i \in 1..Len(_hooks[h]) : _hooks[h][i].unit = u /\ _hooks[h][i].gen = gen }

\* the routes that were in the table before this load began
StaleKeys == { p \in DOMAIN _mounts : _mounts[p].gen < gen }

\* no unit's code raises, in any load
NoUnitEverRaises ==
    \A u \in Units :
        /\ progs[u].fate = "ok"
        /\ \A i \in 1..Len(progs[u].decl) : progs[u].decl[i] # NonStr

\* every unit of the directory ended in time and without raising
AllCompletedOk ==
    /\ timedOut = {}
    /\ \A u \in Listed : pos[u] = "dead" /\ ~Raised(u)

\* no two units of the directory declare the same normalized prefix
DisjointPrefixes ==
    \A u, v \in Listed : u # v => NormKeys(u) \cap NormKeys(v) = {}

----------------------------------------------------------------------------
(* The properties *)

\* C1: a unit whose code raised during its loader's run has no entry in the
\* route table and no handler in any hook's list.  (Stated as claimed; the
\* code merges whatever a dead loader left in t.mounts and t.cfg.)
C1_RaisedUnitContributesNothing ==
    \A u \in Units :
        Raised(u) => /\ RoutesOf(u) = {}
                     /\ \A h \in Hooks : HandlersOf(u, h) = {}

\* C2: when a loader was still running as the wait ceiling was reached,
\* load() does not end by raising.  (Stated as claimed; t.cf() raises.)
C2_LoadReturnsAfterTimeout ==
    timedOut # {} => pc # "raised"

\* C3: a unit whose loader was still running when the wait ceiling expired
\* has no entry in the route table, no hook handler and no file in the
\* watch-set.  (Stated as claimed, for the units whose code does not raise;
\* the merge loop asks is_alive() again.)
C3_TimedOutUnitExcluded ==
    \A u \in timedOut :
      ~Raised(u) =>
        /\ RoutesOf(u) = {}
        /\ \A h \in Hooks : HandlersOf(u, h) = {}
        /\ u \notin extra_files

\* C4 as claimed: the routes of a unit that completed without raising are
\* the ones it holds when no sibling raises, namely its prefixes that were
\* free before the load and that no unit earlier in the list declares.
C4_SameAsWithoutSiblingFailure ==
    \A u \in Units :
        (Merged(u) /\ ~Raised(u)) =>
            RoutesOf(u) =
                NormKeys(u) \ (StaleKeys \cup
                    UNION { NormKeys(threads[i]) : i \in 1..(IndexIn(threads, u) - 1) })

\* C4 as amended: for a unit that completed without raising and has been
\* merged, each hook's list holds its handler exactly once if the handler is
\* valid and not at all otherwise, whatever the siblings did; the unit holds
\* no route it did not declare; and under a prefix of its own that was free
\* before the load it holds the route, with its wrapped handler, exactly
\* when no unit earlier in the list stored that prefix -- so always, when no
\* other unit declares the prefix.
C4_SiblingFaultIsolation ==
    \A u \in Units :
        (Merged(u) /\ ~Raised(u)) =>
            /\ \A h \in Hooks :
                 Cardinality(HandlersOf(u, h)) =
                    IF h \in DOMAIN progs[u].binds /\ progs[u].binds[h] THEN 1 ELSE 0
            /\ RoutesOf(u) \subseteq NormKeys(u)
            /\ \A p \in NormKeys(u) \ StaleKeys :
                 /\ p \in RoutesOf(u) <=>
                       \A i \in 1..(IndexIn(threads, u) - 1) :
                           p \notin DOMAIN mounts[threads[i]]
                 /\ p \in RoutesOf(u) => _mounts[p].wrapped
                 /\ (\A v \in Listed \ {u} : p \notin NormKeys(v)) => p \in RoutesOf(u)

\* C4 witness: a unit that completed without raising has been merged, with
\* a route of its own in the table, in a load where its sibling raised
C4_Witness ==
    \E u, v \in Units :
        /\ u # v
        /\ Merged(u) /\ ~Raised(u) /\ RoutesOf(u) # {}
        /\ Merged(v) /\ Raised(v)

\* C5: the waiting loop sleeps only while a loader is alive, and every wait
\* ends: the coordinator reaches the merge loop, whatever the loaders do.
C5_WaitEnds ==
    /\ [][(pc = "wait" /\ AliveThreads = {}) => elapsed' = elapsed]_vars
    /\ (pc = "wait") ~> (pc = "merge")

\* C5 witness: the wait ended at the ceiling with a loader still alive
C5_Witness ==
    pc = "merge" /\ idx = 1 /\ elapsed = MaxPolls /\ AliveThreads # {}

\* C6: of two units that both completed in time and hold the same prefix,
\* neither of which raised, the one whose thread ended first has its handler
\* in the table.  (Stated as claimed; the merge loop follows the order of
\* the glob result.)
C6_FirstCompletedWins ==
    (pc = "built" /\ gen = 1) =>
        \A u, v \in Listed \ timedOut :
            (/\ u # v /\ ~Raised(u) /\ ~Raised(v)
             /\ IndexIn(finished, u) < IndexIn(finished, v)) =>
                \A p \in DOMAIN mounts[u] \cap DOMAIN mounts[v] :
                    _mounts[p].unit = u

\* C7: no step takes a route out of the table or changes its handler; and a
\* merge step that meets an occupied prefix logs a duplicate-route warning
\* for it and goes on with the merge loop.
C7_FirstClaimantKept ==
    [][ /\ \A p \in DOMAIN _mounts :
              p \in DOMAIN _mounts' /\ _mounts'[p] = _mounts[p]
        /\ (pc = "merge" /\ idx' = idx + 1) =>
              /\ pc' = "merge"
              /\ \A p \in DOMAIN mounts[threads[idx]] \cap DOMAIN _mounts :
                    LogEntry("duplicate_route", gen, "", p) \in log'
      ]_vars

\* C7 witness: a load went through after the coordinator met an occupied
\* prefix, and the prefix is still held by a handler of another unit
C7_Witness ==
    /\ pc = "built"
    /\ \E p \in DOMAIN _mounts : \E u \in Listed :
          /\ LogEntry("duplicate_route", gen, "", p) \in log
          /\ p \in DOMAIN mounts[u]
          /\ _mounts[p] # mounts[u][p]

\* C8: after a first load in which every unit completed in time without
\* raising and no two units declare the same normalized prefix, the keys of
\* the route table are the units' normalized prefixes, each mapped to a
\* wrapped handler that the declaring unit made for that prefix.
C8_DisjointUnion ==
    (pc = "built" /\ gen = 1 /\ AllCompletedOk /\ DisjointPrefixes) =>
        /\ DOMAIN _mounts = UNION { NormKeys(u) : u \in Listed }
        /\ \A u \in Listed : \A p \in NormKeys(u) :
              /\ _mounts[p].unit = u
              /\ _mounts[p].wrapped
              /\ with_leading_slash(_mounts[p].raw) = p

\* C8 witness: a first load of two such units that ended with two routes
C8_Witness ==
    /\ pc = "built" /\ gen = 1 /\ AllCompletedOk /\ DisjointPrefixes
    /\ Cardinality(Listed) = 2
    /\ Cardinality(DOMAIN _mounts) = 2

\* C9: the table a load hands to its Router holds only routes that the
\* units of that load declare, with handlers made in that load.  (Stated as
\* claimed, for the runs in which no unit raises; load() goes on filling
\* the dict made in init().)
C9_FreshTablePerLoad ==
    (pc = "built" /\ NoUnitEverRaises) =>
        \A p \in DOMAIN _mounts :
            /\ _mounts[p].gen = gen
            /\ p \in UNION { NormKeys(u) : u \in Listed }

\* C10: after a load, each hook's list holds handlers of that load only, and
\* at most one of each unit.  (Stated as claimed, for the runs in which no
\* unit raises; load() goes on appending to the lists made in init().)
C10_HooksRebuiltPerLoad ==
    (pc = "built" /\ NoUnitEverRaises) =>
        \A h \in Hooks :
            /\ \A i \in 1..Len(_hooks[h]) : _hooks[h][i].gen = gen
            /\ \A i, j \in 1..Len(_hooks[h]) :
                  i # j => _hooks[h][i].unit # _hooks[h][j].unit

\* C11: when the load before this one returned, listed the same files, and
\* each loader stored the same keys in both loads, the route table after this
\* load has the keys it had after the load before, each with the same
\* handler object.
C11_ReloadIdempotent ==
    (/\ pc = "built"
     /\ prev.gen >= 1 /\ prev.gen = gen - 1
     /\ prev.listed = Listed
     /\ \A u \in Listed : DOMAIN mounts[u] = prev.keys[u]) =>
        /\ DOMAIN _mounts = DOMAIN prev.table
        /\ \A p \in DOMAIN _mounts : _mounts[p] = prev.table[p]

\* C11 witness: a second load of the same two files, with the same keys
\* stored by each loader, ended with a route in the table
C11_Witness ==
    /\ pc = "built"
    /\ prev.gen >= 1 /\ prev.gen = gen - 1
    /\ prev.listed = Listed /\ Cardinality(Listed) = 2
    /\ \A u \in Listed : DOMAIN mounts[u] = prev.keys[u]
    /\ DOMAIN _mounts # {}

\* C12: with the reloader in use, after load() the watch-set holds every
\* file recorded by every loader that completed in time, and a loader whose
\* unit did not raise recorded at least one file.  (Stated as claimed;
\* set.union leaves reloader.extra_files unchanged, and run() records files
\* only in its except clause.)
C12_WatchSetComplete ==
    (pc = "built" /\ use_reloader) =>
        \A u \in Listed \ timedOut :
            /\ reloader_extra_files[u] \subseteq extra_files
            /\ ~Raised(u) => reloader_extra_files[u] # {}

\* C13: without the reloader, when no listed unit loaded successfully, load()
\* does not build a router over an empty route table and log a successful
\* boot.  (Stated as claimed; load() has no such test.)
C13_NoEmptyBoot ==
    ~(/\ pc = "built"
      /\ ~use_reloader
      /\ Listed # {}
      /\ \A u \in Listed : Raised(u)
      /\ _mounts = EmptyMap
      /\ LogEntry("booted", gen, "", <<>>) \in log)

\* C14: in the round of the merge loop on a finished loader whose namespace
\* binds hook h to an object h's validator rejects, h's list is left as it
\* was and an error naming the unit is logged, while the unit's mounts and
\* its handlers for the other hooks are merged as they are for a unit that
\* does not bind h, and the loop goes on to the next loader.
C14_InvalidHandlerDropped ==
    [][(/\ pc = "merge" /\ idx <= Len(threads)
        /\ pos[threads[idx]] = "dead"
        /\ idx' # idx) =>
          LET u == threads[idx] IN
          \A h \in DOMAIN cfg[u].hooks :
            ~cfg[u].hooks[h].valid =>
              /\ _hooks'[h] = _hooks[h]
              /\ LogEntry("hook_error", gen, u, <<>>) \in log'
              /\ \A h2 \in Hooks \ {h} :
                    _hooks'[h2] = _hooks[h2] \o
                        (IF h2 \in DOMAIN cfg[u].hooks /\ cfg[u].hooks[h2].valid
                         THEN <<cfg[u].hooks[h2]>> ELSE <<>>)
              /\ DOMAIN _mounts' = DOMAIN _mounts \cup DOMAIN mounts[u]
              /\ \A p \in DOMAIN _mounts' :
                    _mounts'[p] = IF p \in DOMAIN _mounts THEN _mounts[p]
                                  ELSE mounts[u][p]
              /\ pc' = "merge" /\ idx' = idx + 1]_vars

\* a unit with a rejected and an accepted handler has been merged, and a
\* unit listed after it has been merged too
C14_Witness ==
    \E u, v \in Listed :
        /\ Merged(u) /\ Merged(v) /\ IndexIn(threads, u) < IndexIn(threads, v)
        /\ \E h \in DOMAIN cfg[u].hooks : ~cfg[u].hooks[h].valid
        /\ HandlersOf(u, "when_ready") = {}
        /\ HandlersOf(u, "on_starting") # {}
        /\ RoutesOf(u) # {}
        /\ LogEntry("hook_error", gen, u, <<>>) \in log
        /\ HandlersOf(v, "when_ready") # {}

\* C15 as claimed: one call of a hook's proxy calls every handler of the
\* hook's list once, in the list's order, with the proxy's arguments.
\* (Fails when a handler raises: the exception leaves the proxy's loop.)
C15_EveryHandlerCalledOnce ==
    proxy_call # NoCall =>
        proxy_call.calls =
            [i \in 1..Len(_hooks[proxy_call.name]) |->
                [handler |-> _hooks[proxy_call.name][i], args |-> proxy_call.args]]

\* C15: one call of a hook's proxy calls the handlers of the hook's list in
\* the list's order, each once and with the proxy's arguments, up to and
\* including the first handler that raises; when no handler raises it calls
\* every handler of the list, and with an empty list it calls nothing.
C15_HandlersCalledInOrder ==
    proxy_call # NoCall =>
        LET handlers == _hooks[proxy_call.name]
            calls    == proxy_call.calls
        IN  /\ Len(calls) <= Len(handlers)
            /\ \A i \in 1..Len(calls) :
                  /\ calls[i].handler = handlers[i]
                  /\ calls[i].args = proxy_call.args
            /\ ~proxy_call.escaped => Len(calls) = Len(handlers)
            /\ proxy_call.escaped => Len(calls) >= 1
            /\ handlers = <<>> => calls = <<>>

\* a proxy was called on a list of two handlers, none raised
C15_Witness ==
    /\ proxy_call # NoCall
    /\ ~proxy_call.escaped
    /\ Len(_hooks[proxy_call.name]) >= 2
    /\ Len(proxy_call.calls) = Len(_hooks[proxy_call.name])
    /\ proxy_call.calls[1].handler # proxy_call.calls[2].handler

\* C16: every key of a loader's mounts and of the route table begins with
\* '/'; and once a loader has ended without raising, each key its unit
\* declared without a leading '/' is stored with '/' put before it and a
\* warning for it is logged, and each key declared with a leading '/' is
\* stored as declared, without that warning.
C16_KeysNormalized ==
    /\ \A u \in Units : \A p \in DOMAIN mounts[u] : Len(p) > 0 /\ p[1] = "/"
    /\ \A p \in DOMAIN _mounts : Len(p) > 0 /\ p[1] = "/"
    /\ \A u \in Listed :
          (pos[u] = "dead" /\ progs[u].fate = "ok" /\ ~Raised(u)) =>
            \A i \in 1..Len(progs[u].decl) :
              LET r == progs[u].decl[i] IN
              IF r[1] = "/"
              THEN /\ r \in DOMAIN mounts[u]
                   /\ LogEntry("leading_slash", gen, u, r) \notin log
              ELSE /\ (<<"/">> \o r) \in DOMAIN mounts[u]
                   /\ r \notin DOMAIN mounts[u]
                   /\ LogEntry("leading_slash", gen, u, r) \in log

\* a unit that declared the key x has been merged, and the table holds /x
C16_Witness ==
    \E u \in Listed :
        /\ Merged(u) /\ ~Raised(u)
        /\ \E i \in 1..Len(progs[u].decl) : progs[u].decl[i] = Bare_x
        /\ DOMAIN mounts[u] = {Slash_x}
        /\ Slash_x \in DOMAIN _mounts
        /\ LogEntry("leading_slash", gen, u, Bare_x) \in log

\* the segments of a path that begins with '/'
RECURSIVE Segments(_)
Segments(path) ==
    IF path = <<>> THEN <<>>
    ELSE LET ends == { i \in 2..Len(path) : path[i] = "/" }
             stop == IF ends = {} THEN Len(path) + 1
                     ELSE CHOOSE i \in ends : \A j \in ends : i <= j
         IN  <<SubSeq(path, 2, stop - 1)>> \o Segments(SubSeq(path, stop, Len(path)))

\* the segments of prefix are the first segments of path
SegmentPrefix(prefix, path) ==
    LET ps == Segments(prefix)
        qs == Segments(path)
    IN  Len(ps) <= Len(qs) /\ SubSeq(qs, 1, Len(ps)) = ps

\* C17: the Router resolves a path to the registered prefix with the most
\* segments among the registered prefixes whose segments begin the path's,
\* and to not found when there is none; with /a and /a/b registered, /a/b/x
\* goes to /a/b, /a/x to /a, and /z is not found.
C17_LongestPrefixDispatch ==
    dispatched # NoRequest =>
        LET path  == dispatched.path
            match == { p \in DOMAIN _mounts : SegmentPrefix(p, path) }
        IN  /\ dispatched.found <=> match # {}
            /\ dispatched.found =>
                  /\ dispatched.prefix \in match
                  /\ \A p \in match \ {dispatched.prefix} :
                        Len(Segments(p)) < Len(Segments(dispatched.prefix))
            /\ DOMAIN _mounts = { <<"/", "a">>, <<"/", "a", "/", "b">> } =>
                  /\ path = <<"/", "a", "/", "b", "/", "x">> =>
                        dispatched.prefix = <<"/", "a", "/", "b">>
                  /\ path = <<"/", "a", "/", "x">> =>
                        dispatched.prefix = <<"/", "a">>
                  /\ path = <<"/", "z">> => ~dispatched.found

\* with /a and /a/b registered, /a/b/x was resolved
C17_Witness ==
    /\ DOMAIN _mounts = { <<"/", "a">>, <<"/", "a", "/", "b">> }
    /\ dispatched.path = <<"/", "a", "/", "b", "/", "x">>
    /\ dispatched.found
    /\ dispatched.prefix = <<"/", "a", "/", "b">>

\* C18: a round of the merge loop that reads a loader's mounts and namespace
\* is taken only when that loader's thread has ended; _mounts and the hook
\* lists change only in such a round, never in a step of a loader; and what
\* a merged loader holds does not change while the load goes on, so what
\* was merged is what the loader ended with.
C18_NoTornReads ==
    [][/\ (pc = "merge" /\ pc' = "merge" /\ idx' = idx + 1) =>
             pos[threads[idx]] = "dead"
       /\ (_mounts' # _mounts \/ _hooks' # _hooks) =>
             /\ pc = "merge" /\ idx' = idx + 1
             /\ pos' = pos /\ mounts' = mounts /\ cfg' = cfg
       /\ \A u \in Units :
             (Merged(u) /\ pc' \in {"merge", "built"}) =>
                 /\ mounts'[u] = mounts[u]
                 /\ cfg'[u] = cfg[u]
                 /\ pos'[u] = "dead"]_vars

\* one loader's mounts are in the table while another loader still runs
C18_Witness ==
    /\ pc = "merge"
    /\ \E u, v \in Listed :
          /\ Merged(u) /\ RoutesOf(u) # {}
          /\ pos[v] \in {"exec", "norm"}

\* C19: once a loader has ended without raising, for two keys its unit
\* declared that get the same key when stored, the loader's mounts hold the
\* handler of the one declared first, and a duplicate-route warning for the
\* key is logged.  (Stated as claimed; run() keeps the one the dict's
\* iteration yields first.)
C19_FirstDeclaredKept ==
    \A u \in Listed :
        (pos[u] = "dead" /\ progs[u].fate = "ok" /\ ~Raised(u)) =>
            \A i, j \in 1..Len(progs[u].decl) :
                LET ri  == progs[u].decl[i]
                    rj  == progs[u].decl[j]
                    key == IF ri[1] = "/" THEN ri ELSE <<"/">> \o ri
                IN  (i < j /\ key = (IF rj[1] = "/" THEN rj ELSE <<"/">> \o rj)) =>
                        /\ key \in DOMAIN mounts[u]
                        /\ mounts[u][key].raw = ri
                        /\ LogEntry("duplicate_route", gen, u, key) \in log

\* C20: a loader whose unit's code raised has ended with the failure
\* logged, and no exception left its run().  (Stated as claimed; the except
\* clause of run() names Exception, which SystemExit is not.)
C20_EveryFailureCaught ==
    \A u \in Listed :
        (pos[u] = "dead" /\ progs[u].fate \in {"raise_early", "raise_late", "exit"}) =>
            /\ LogEntry("exception", gen, u, <<>>) \in log
            /\ ~Escaped(u)

====
